---- MODULE Spec2Model ----
(***************************************************************************)
(* blobular: a content-addressed object store with content-defined         *)
(* chunking (src/src/main.rs).  The state is the directory tree the        *)
(* program works on (which directories hold a .blobular, and the objects   *)
(* tree of each) and what the last invocation of the program reported.     *)
(* One action per command of the command line: init, add, cat-blob,        *)
(* cat-file.                                                               *)
(***************************************************************************)
EXTENDS Integers, Sequences, FiniteSets, TLC

(***************************************************************************)
(* Byte buffers (Vec<u8>, &[u8], the contents of files).                   *)
(*                                                                         *)
(* A buffer is held run-length encoded: a sequence of runs <<byte, count>> *)
(* with count >= 1 and adjacent runs of different bytes.  The encoding is  *)
(* canonical (one encoding per byte string), so two buffers are equal      *)
(* byte for byte exactly when their encodings are equal, and a buffer of   *)
(* 65536 bytes costs no more than its number of runs.  Offsets are         *)
(* 0-based, as in the source.                                              *)
(***************************************************************************)

\* Vec::push / extend_from_slice of count copies of byte v.
Push(b, v, count) ==
    IF count = 0 THEN b
    ELSE IF b # <<>> /\ b[Len(b)][1] = v
         THEN [b EXCEPT ![Len(b)] = <<v, @[2] + count>>]
         ELSE Append(b, <<v, count>>)

\* Vec::extend_from_slice(a, b): a followed by b.
Cat(a, b) == IF b = <<>> THEN a ELSE Push(a, b[1][1], b[1][2]) \o Tail(b)

\* buf.len(): the counts of the runs, summed by halves.
RECURSIVE BLen(_)
BLen(b) ==
    IF b = <<>> THEN 0
    ELSE IF Len(b) = 1 THEN b[1][2]
    ELSE LET half == Len(b) \div 2
         IN  BLen(SubSeq(b, 1, half)) + BLen(SubSeq(b, half + 1, Len(b)))

\* &buf[k..]
RECURSIVE Drop(_, _)
Drop(b, k) ==
    IF k = 0 \/ b = <<>> THEN b
    ELSE IF b[1][2] <= k THEN Drop(Tail(b), k - b[1][2])
    ELSE <<<<b[1][1], b[1][2] - k>>>> \o Tail(b)

\* &buf[..k]
RECURSIVE Take(_, _)
Take(b, k) ==
    IF k = 0 \/ b = <<>> THEN <<>>
    ELSE IF b[1][2] <= k THEN <<b[1]>> \o Take(Tail(b), k - b[1][2])
    ELSE <<<<b[1][1], k>>>>

\* &buf[offset..offset + length]
Slice(b, offset, length) == Take(Drop(b, offset), length)

\* str::as_bytes / a byte-string literal: the buffer of a plain sequence of bytes.
RECURSIVE Pack(_)
Pack(s) ==
    IF Len(s) = 0 THEN <<>>
    ELSE IF Len(s) = 1 THEN <<<<s[1], 1>>>>
    ELSE LET half == Len(s) \div 2
         IN  Cat(Pack(SubSeq(s, 1, half)), Pack(SubSeq(s, half + 1, Len(s))))

\* The plain sequence of bytes of a buffer (a String built from it).
RECURSIVE Unpack(_)
Unpack(b) ==
    IF Len(b) = 0 THEN <<>>
    ELSE IF Len(b) = 1 THEN [i \in 1..b[1][2] |-> b[1][1]]
    ELSE LET half == Len(b) \div 2
         IN  Unpack(SubSeq(b, 1, half)) \o Unpack(SubSeq(b, half + 1, Len(b)))

\* The set of byte values that occur in a buffer.
BytesOf(b) == {b[i][1] : i \in 1..Len(b)}

Max(a, b) == IF a >= b THEN a ELSE b

(***************************************************************************)
(* Chunker: fastcdc::v2020::FastCDC, called by chunk_file with the sizes   *)
(* of main.rs:10.                                                          *)
(***************************************************************************)
MinSize == 2048
AvgSize == 4096
MaxSize == 65535

\* The gear fingerprint's judgement at a byte: whether the rolling hash, having
\* taken this byte in, has all bits of the mask clear.  The fingerprint of the
\* crate is a table-driven hash of the bytes since the start of the chunk; here
\* the judgement is a function of the last byte taken in: byte 'S' clears the
\* small mask (used before the average size), byte 'L' the large mask (after).
Judge(v, small) == IF small THEN v = 83 ELSE v = 76

\* The least offset p with lo <= p < hi whose byte the gear judges a boundary,
\* hi when there is none.  base is the offset of b's first byte.
RECURSIVE FindCut(_, _, _, _, _)
FindCut(b, base, lo, hi, small) ==
    IF b = <<>> \/ base >= hi THEN hi
    ELSE LET first == Max(base, lo)
         IN  IF Judge(b[1][1], small) /\ first < base + b[1][2] /\ first < hi
             THEN first
             ELSE FindCut(Tail(b), base + b[1][2], lo, hi, small)

\* fastcdc::v2020::cut: the length of the first chunk of source.
cut(source, min_size, avg_size, max_size) ==
    LET len       == BLen(source)
        remaining == IF len > max_size THEN max_size ELSE len
        center    == IF len <= max_size /\ len < avg_size THEN len ELSE avg_size
        mid       == 2 * Max(min_size \div 2, center \div 2)
        end       == 2 * (remaining \div 2)
        s         == FindCut(source, 0, 2 * (min_size \div 2), 2 * (center \div 2), TRUE)
        l         == FindCut(source, 0, mid, end, FALSE)
    IN  IF len <= min_size THEN len
        ELSE IF s < 2 * (center \div 2) THEN s
        ELSE IF l < end THEN l
        ELSE remaining

\* Iterator for FastCDC: the chunks {offset, length} of source from offset processed on.
RECURSIVE FastCDC_from(_, _, _, _, _)
FastCDC_from(source, processed, min_size, avg_size, max_size) ==
    IF BLen(source) = processed THEN <<>>
    ELSE LET length == cut(Drop(source, processed), min_size, avg_size, max_size)
         IN  <<[offset |-> processed, length |-> length]>>
             \o FastCDC_from(source, processed + length, min_size, avg_size, max_size)

FastCDC(source, min_size, avg_size, max_size) ==
    FastCDC_from(source, 0, min_size, avg_size, max_size)

\* chunk_file with half the minimum size.
chunk_file_small_min(buf) == FastCDC(buf, 1024, AvgSize, MaxSize)

\* chunk_file (main.rs:9-11)
chunk_file(buf) == FastCDC(buf, MinSize, AvgSize, MaxSize)

(***************************************************************************)
(* The environment: the directories an invocation can be started in, and   *)
(* the files its path arguments can name.  The program never writes to     *)
(* the files it is given, so they are not part of the state.               *)
(***************************************************************************)

\* Directories, as paths from the filesystem root.
Root == <<>>
Dirs == {Root}

\* PathBuf::pop on a directory that is not the root.
Parent(dir) == SubSeq(dir, 1, Len(dir) - 1)

\* Lengths of the parts of the large file F, so that its chunks are one cut by
\* the gear (at CutAt), one cut at the maximum size, and a tail of TailLen bytes.
CutAt == MinSize + 256
TailLen == 1

\* The files.  "x" and its copy "x2" hold one byte; "y" another byte; "F" is
\* x ... x S x ... L ... x S x ... x: an 'S' just before the minimum size, an
\* 'L' before the average size, an 'S' at CutAt, then MaxSize + TailLen - 1
\* bytes with no boundary byte; "empty" has no bytes; "missing" names no file.
Paths == {"x", "x2", "y", "F", "empty", "missing"}

is_file(path) == path # "missing"

FileBytes(path) ==
    CASE path \in {"x", "x2"} -> <<<<120, 1>>>>
      [] path = "y" -> <<<<121, 1>>>>
      [] path = "F" -> << <<120, MinSize - 1>>, <<83, 1>>, <<120, 100>>, <<76, 1>>,
                          <<120, CutAt - MinSize - 101>>, <<83, 1>>,
                          <<120, MaxSize - 1 + TailLen>> >>
      [] OTHER -> <<>>

(***************************************************************************)
(* Digest: Sha1 rendered by format!("{:x}") as 40 lowercase hex digits.    *)
(*                                                                         *)
(* SHA-1 itself is not computed.  The digest here is a deterministic       *)
(* function of the bytes that, like SHA-1, gives the different buffers of  *)
(* this model different digests, and whose digits let digests share a      *)
(* leading part: the first four digits render the length, the next four    *)
(* the sum of the bytes, the next four a sum weighted by place (each least *)
(* significant digit first), and the rest are 0.                           *)
(***************************************************************************)
HashLen == 40

\* One lowercase hex digit, as its ASCII code.
HexChar(d) == IF d < 10 THEN 48 + d ELSE 87 + d

\* k hex digits of n, least significant first.
HexLE(n, k) == <<>> \o [i \in 1..k |-> HexChar((n \div (16 ^ (i - 1))) % 16)]

\* The sum of the bytes of the runs lo..hi of b, modulo the Adler-32 prime.
RECURSIVE ByteSum(_, _, _)
ByteSum(b, lo, hi) ==
    IF lo > hi THEN 0
    ELSE IF lo = hi THEN (b[lo][1] * b[lo][2]) % 65521
    ELSE LET half == (lo + hi) \div 2
         IN  (ByteSum(b, lo, half) + ByteSum(b, half + 1, hi)) % 65521

\* A sum over the runs lo..hi of b, each weighted by its place.
RECURSIVE RunSum(_, _, _)
RunSum(b, lo, hi) ==
    IF lo > hi THEN 0
    ELSE IF lo = hi THEN (lo * (b[lo][1] + (b[lo][2] % 251))) % 65521
    ELSE LET half == (lo + hi) \div 2
         IN  (RunSum(b, lo, half) + RunSum(b, half + 1, hi)) % 65521

Sha1Hex(b) ==
    HexLE(BLen(b) % 65536, 4) \o HexLE((1 + ByteSum(b, 1, Len(b))) % 65521, 4)
    \o HexLE(RunSum(b, 1, Len(b)), 4) \o [i \in 1..(HashLen - 12) |-> 48]

\* The buffers an add hashes: the bytes of each file and of each of its chunks.
RECURSIVE ChunkBytes(_, _)
ChunkBytes(file_bytes, chunks) ==
    IF chunks = <<>> THEN {}
    ELSE {Slice(file_bytes, chunks[1].offset, chunks[1].length)}
         \cup ChunkBytes(file_bytes, Tail(chunks))

Hashed ==
    UNION {{FileBytes(p)} \cup ChunkBytes(FileBytes(p), chunk_file(FileBytes(p))) : p \in Paths}

\* Sha1Hex on those buffers, computed once.
DigestTable == [b \in Hashed |-> Sha1Hex(b)]

\* Sha1::new(), update(bytes), finalize(), format!("{:x}", hash)
Digest(b) == DigestTable[b]

\* The hashes the store can come to hold, and the hash of the empty buffer, which
\* it never holds.
KnownHashes == {Digest(b) : b \in Hashed}

\* str::as_bytes of a hash, computed once per hash.
HashBytes == [h \in KnownHashes |-> Pack(h)]

as_bytes(hash) == HashBytes[hash]

(***************************************************************************)
(* zlib: flate2::write::ZlibEncoder / flate2::read::ZlibDecoder.           *)
(*                                                                         *)
(* A zlib stream is a two-byte header (0x78 0x9c at the default level), a  *)
(* deflate body and a checksum of the uncompressed bytes.  The body is     *)
(* kept as the buffer it decodes to; the checksum is the byte sum of       *)
(* Adler-32.                                                               *)
(***************************************************************************)
Adler(b) == (1 + ByteSum(b, 1, Len(b))) % 65521

ZlibEncode(b) == [header |-> <<120, 156>>, deflate |-> b, adler |-> Adler(b)]

ZlibDecode(z) ==
    IF z.header = <<120, 156>> /\ z.adler = Adler(z.deflate)
    THEN [ok |-> TRUE, bytes |-> z.deflate]
    ELSE [ok |-> FALSE, bytes |-> <<>>]

(***************************************************************************)
(* State.                                                                  *)
(*   disk    the directories that hold a .blobular, each mapped to its     *)
(*           objects tree: shard directory name (2 hex digits) ->          *)
(*           file name (38 hex digits) -> the zlib stream in the file      *)
(*   result  what the last invocation did: command, working directory,     *)
(*           arguments, how it ended, exit status, standard output, the    *)
(*           "note:" lines of an ambiguity, the shard directories it       *)
(*           listed, the objects it opened, the objects it wrote, the      *)
(*           files it read                                                 *)
(*   added   history: per repository, the <<file bytes, hash printed>> of  *)
(*           every add that printed a hash                                 *)
(*   puts    the invocations that run at the same time, each at a step of  *)
(*           a store_blob; none where invocations run one after another    *)
(***************************************************************************)
VARIABLES disk, result, added, puts

vars == <<disk, result, added, puts>>

\* A directory with no entries.
EmptyDir == [n \in {} |-> <<>>]

\* The running process: the disk as it goes, and what it has emitted so far.
\* status is "run" until the process exits.
Start(d) ==
    [disk |-> d, status |-> "run", stdout |-> <<>>, notes |-> {},
     listed |-> {}, opened |-> {}, written |-> <<>>, printed |-> <<>>,
     read |-> <<>>]

\* eprintln!("fatal: ..."); std::process::exit(128)
Fatal(ps, kind) == [ps EXCEPT !.status = kind]

\* A failed unwrap(): the process panics (exit status 101).
Panic(ps) == [ps EXCEPT !.status = "panic"]

ExitCode(status) == IF status = "ok" THEN 0 ELSE IF status = "panic" THEN 101 ELSE 128

\* find_dot_blobular (main.rs:59-75): the nearest of cwd and its ancestors that
\* holds a .blobular directory.
RECURSIVE find_dot_blobular(_, _)
find_dot_blobular(d, current_dir) ==
    IF current_dir \in DOMAIN d THEN [ok |-> TRUE, dir |-> current_dir]
    ELSE IF current_dir = Root THEN [ok |-> FALSE, dir |-> Root]
    ELSE find_dot_blobular(d, Parent(current_dir))

\* initialize_dot_blobular looking for .blobular in the current directory only.
initialize_dot_blobular_cwd_only(ps, cwd) ==
    IF cwd \in DOMAIN ps.disk
    THEN Fatal(ps, "AlreadyInRepository")
    ELSE [ps EXCEPT !.disk = (cwd :> EmptyDir) @@ ps.disk]

\* initialize_dot_blobular (main.rs:78-94)
initialize_dot_blobular(ps, cwd) ==
    IF find_dot_blobular(ps.disk, cwd).ok
    THEN Fatal(ps, "AlreadyInRepository")
    ELSE [ps EXCEPT !.disk = (cwd :> EmptyDir) @@ ps.disk]

\* hash_file (main.rs:97-114)
hash_file(path) == Digest(FileBytes(path))

\* The shard directory and the file name of a hash (main.rs:193-196).
Shard(hash) == SubSeq(hash, 1, 2)
Name(hash) == SubSeq(hash, 3, Len(hash))

\* object_path.is_file() answering false whatever the directory holds.
object_is_file_never(objects, hash) == FALSE

\* object_path.is_file()
object_is_file(objects, hash) ==
    Shard(hash) \in DOMAIN objects /\ Name(hash) \in DOMAIN objects[Shard(hash)]

\* store_blob without the check that the object exists: every call writes.
store_blob_overwrite(ps, dot_blobular, blob, blob_hash) ==
    LET objects == ps.disk[dot_blobular]
        shard   == Shard(blob_hash)
        dir     == IF shard \in DOMAIN objects THEN objects[shard] ELSE EmptyDir
        file    == (Name(blob_hash) :> ZlibEncode(blob))
    IN  [ps EXCEPT !.disk[dot_blobular] = (shard :> (file @@ dir)) @@ objects,
                   !.written = Append(@, blob_hash)]

\* store_blob creating the shard directory anew on every write: the objects the
\* directory held are gone.
store_blob_fresh_shard(ps, dot_blobular, blob, blob_hash) ==
    LET objects == ps.disk[dot_blobular]
        shard   == Shard(blob_hash)
        file    == (Name(blob_hash) :> ZlibEncode(blob))
    IN  IF object_is_file(objects, blob_hash)
        THEN ps
        ELSE [ps EXCEPT !.disk[dot_blobular] = (shard :> file) @@ objects,
                        !.written = Append(@, blob_hash)]

\* store_blob (main.rs:190-216)
store_blob(ps, dot_blobular, blob, blob_hash) ==
    LET objects == ps.disk[dot_blobular]
        shard   == Shard(blob_hash)
        \* create_dir_all(parent) when the shard directory is missing
        dir     == IF shard \in DOMAIN objects THEN objects[shard] ELSE EmptyDir
        \* File::create, then the zlib stream written and finished
        file    == (Name(blob_hash) :> ZlibEncode(blob))
    IN  IF object_is_file(objects, blob_hash)
        THEN ps
        ELSE [ps EXCEPT !.disk[dot_blobular] = (shard :> (file @@ dir)) @@ objects,
                        !.written = Append(@, blob_hash)]

\* b"blob ", b'\n'
LF == 10
BlobPrefix == Pack(<<98, 108, 111, 98, 32>>)

\* The parent blob of a list of chunk hashes (main.rs:175-180).
RECURSIVE parent_blob_of(_)
parent_blob_of(chunk_hashes) ==
    IF chunk_hashes = <<>> THEN <<>>
    ELSE Cat(Push(Cat(BlobPrefix, as_bytes(chunk_hashes[1])), LF, 1),
             parent_blob_of(Tail(chunk_hashes)))

\* The loop of main.rs:157-167: each chunk hashed and stored, in order; the
\* process after it.
RECURSIVE store_chunks(_, _, _, _)
store_chunks(ps, dot_blobular, file_bytes, chunks) ==
    IF chunks = <<>> THEN ps
    ELSE LET chunk_bytes == Slice(file_bytes, chunks[1].offset, chunks[1].length)
         IN  store_chunks(store_blob(ps, dot_blobular, chunk_bytes, Digest(chunk_bytes)),
                          dot_blobular, file_bytes, Tail(chunks))

\* The chunk hashes that loop pushes.
RECURSIVE chunk_hashes_of(_, _)
chunk_hashes_of(file_bytes, chunks) ==
    IF chunks = <<>> THEN <<>>
    ELSE <<Digest(Slice(file_bytes, chunks[1].offset, chunks[1].length))>>
         \o chunk_hashes_of(file_bytes, Tail(chunks))

\* add_file_to_blobular_repo without the check that the file is not empty.
add_file_to_blobular_repo_no_empty_check(ps, cwd, path) ==
    LET found      == find_dot_blobular(ps.disk, cwd)
        file_bytes == FileBytes(path)
        chunks     == chunk_file(file_bytes)
        blob_hash  == hash_file(path)
        stored     == store_chunks(ps, found.dir, file_bytes, chunks)
        parent     == parent_blob_of(chunk_hashes_of(file_bytes, chunks))
        done       == store_blob(stored, found.dir, parent, blob_hash)
    IN  IF ~found.ok THEN Fatal(ps, "RepositoryNotFound")
        ELSE IF ~is_file(path) THEN Fatal(ps, "PathNotFound")
        ELSE [done EXCEPT !.stdout = Push(Cat(@, as_bytes(blob_hash)), LF, 1),
                          !.printed = Append(@, <<path, blob_hash>>),
                          !.read = Append(@, path)]

\* add_file_to_blobular_repo (main.rs:117-187)
add_file_to_blobular_repo(ps, cwd, path) ==
    LET found      == find_dot_blobular(ps.disk, cwd)
        file_bytes == FileBytes(path)
        chunks     == chunk_file(file_bytes)
        blob_hash  == hash_file(path)
        stored     == store_chunks(ps, found.dir, file_bytes, chunks)
        parent     == parent_blob_of(chunk_hashes_of(file_bytes, chunks))
        done       == store_blob(stored, found.dir, parent, blob_hash)
    IN  IF ~found.ok THEN Fatal(ps, "RepositoryNotFound")
        ELSE IF ~is_file(path) THEN Fatal(ps, "PathNotFound")
        ELSE IF BLen(file_bytes) = 0 THEN Fatal(ps, "EmptyFile")
        \* File::open(&path) and the bytes collected (main.rs:141-145)
        ELSE [done EXCEPT !.stdout = Push(Cat(@, as_bytes(blob_hash)), LF, 1),
                          !.printed = Append(@, <<path, blob_hash>>),
                          !.read = Append(@, path)]

\* main, Commands::Add continuing with the next path whatever the last one did.
RECURSIVE add_paths_past_failure(_, _, _)
add_paths_past_failure(ps, cwd, path) ==
    IF path = <<>> THEN ps
    ELSE add_paths_past_failure(add_file_to_blobular_repo(ps, cwd, path[1]), cwd,
                                Tail(path))

\* main, Commands::Add (main.rs:372-376): the paths in order; an exit ends it.
RECURSIVE add_paths(_, _, _)
add_paths(ps, cwd, path) ==
    IF path = <<>> \/ ps.status # "run" THEN ps
    ELSE add_paths(add_file_to_blobular_repo(ps, cwd, path[1]), cwd, Tail(path))

(***************************************************************************)
(* Hash resolution and retrieval.                                          *)
(***************************************************************************)
MinPrefix == 4

\* str::starts_with
starts_with(s, prefix) == Len(prefix) <= Len(s) /\ SubSeq(s, 1, Len(prefix)) = prefix

\* full_hash_from_prefix collecting every entry of the shard directory, whether
\* or not it starts with the rest of the prefix.
full_hash_from_prefix_any_entry(ps, prefix, dot_blobular) ==
    LET objects == ps.disk[dot_blobular]
        shard   == SubSeq(prefix, 1, 2)
        matching_objects == DOMAIN objects[shard]
        scanned == [ps EXCEPT !.listed = @ \cup {shard}]
    IN  IF Len(prefix) = HashLen THEN [ps |-> ps, hash |-> prefix]
        ELSE IF Len(prefix) < MinPrefix
        THEN [ps |-> Fatal(ps, "InvalidPrefix"), hash |-> <<>>]
        ELSE IF shard \notin DOMAIN objects
        THEN [ps |-> Panic(ps), hash |-> <<>>]
        ELSE IF matching_objects = {}
        THEN [ps |-> Fatal(scanned, "ObjectNotFound"), hash |-> <<>>]
        ELSE IF Cardinality(matching_objects) > 1
        THEN [ps |-> [Fatal(scanned, "AmbiguousHash") EXCEPT !.notes = matching_objects],
              hash |-> <<>>]
        ELSE [ps |-> scanned,
              hash |-> shard \o (CHOOSE entry \in matching_objects : TRUE)]

\* full_hash_from_prefix without the check of the prefix's length.
full_hash_from_prefix_unchecked_length(ps, prefix, dot_blobular) ==
    LET objects == ps.disk[dot_blobular]
        shard   == SubSeq(prefix, 1, 2)
        rest    == SubSeq(prefix, 3, Len(prefix))
        matching_objects ==
            {entry \in DOMAIN objects[shard] : starts_with(entry, rest)}
        scanned == [ps EXCEPT !.listed = @ \cup {shard}]
    IN  IF Len(prefix) = HashLen THEN [ps |-> ps, hash |-> prefix]
        ELSE IF shard \notin DOMAIN objects
        THEN [ps |-> Panic(ps), hash |-> <<>>]
        ELSE IF matching_objects = {}
        THEN [ps |-> Fatal(scanned, "ObjectNotFound"), hash |-> <<>>]
        ELSE IF Cardinality(matching_objects) > 1
        THEN [ps |-> [Fatal(scanned, "AmbiguousHash") EXCEPT !.notes = matching_objects],
              hash |-> <<>>]
        ELSE [ps |-> scanned,
              hash |-> shard \o (CHOOSE entry \in matching_objects : TRUE)]

\* full_hash_from_prefix (main.rs:219-261): the process after it, and the hash it
\* returns when the process still runs.  read_dir gives the entries in no
\* particular order, so the names it collects are held as a set.
full_hash_from_prefix(ps, prefix, dot_blobular) ==
    LET objects == ps.disk[dot_blobular]
        shard   == SubSeq(prefix, 1, 2)
        rest    == SubSeq(prefix, 3, Len(prefix))
        matching_objects ==
            {entry \in DOMAIN objects[shard] : starts_with(entry, rest)}
        scanned == [ps EXCEPT !.listed = @ \cup {shard}]
    IN  IF Len(prefix) = HashLen THEN [ps |-> ps, hash |-> prefix]
        ELSE IF Len(prefix) < MinPrefix
        THEN [ps |-> Fatal(ps, "InvalidPrefix"), hash |-> <<>>]
        \* read_dir(object_dir).unwrap() on a directory that does not exist
        ELSE IF shard \notin DOMAIN objects
        THEN [ps |-> Panic(ps), hash |-> <<>>]
        ELSE IF matching_objects = {}
        THEN [ps |-> Fatal(scanned, "ObjectNotFound"), hash |-> <<>>]
        ELSE IF Cardinality(matching_objects) > 1
        THEN [ps |-> [Fatal(scanned, "AmbiguousHash") EXCEPT !.notes = matching_objects],
              hash |-> <<>>]
        ELSE [ps |-> scanned,
              hash |-> shard \o (CHOOSE entry \in matching_objects : TRUE)]

\* cat_blob_from_blobular_repo (main.rs:264-302)
cat_blob_from_blobular_repo(ps, cwd, hash) ==
    LET found    == find_dot_blobular(ps.disk, cwd)
        resolved == full_hash_from_prefix(ps, hash, found.dir)
        after    == resolved.ps
        objects  == after.disk[found.dir]
        decoded  == ZlibDecode(objects[Shard(resolved.hash)][Name(resolved.hash)])
        read     == [after EXCEPT !.opened = @ \cup {resolved.hash}]
    IN  IF Len(hash) < MinPrefix THEN Fatal(ps, "InvalidPrefix")
        ELSE IF ~found.ok THEN Fatal(ps, "RepositoryNotFound")
        ELSE IF after.status # "run" THEN after
        ELSE IF ~object_is_file(objects, resolved.hash) THEN Fatal(after, "ObjectNotFound")
        \* io::copy(&mut decoder, &mut stdout).unwrap()
        ELSE IF ~decoded.ok THEN Panic(read)
        ELSE [read EXCEPT !.stdout = Cat(@, decoded.bytes)]

\* char::is_whitespace on the bytes of ASCII text: tab, LF, VT, FF, CR, space.
is_whitespace(v) == v \in {9, 10, 11, 12, 13, 32}

\* str::trim
RECURSIVE trim_start(_)
trim_start(b) ==
    IF b # <<>> /\ is_whitespace(b[1][1]) THEN trim_start(Tail(b)) ELSE b

RECURSIVE trim_end(_)
trim_end(b) ==
    IF b # <<>> /\ is_whitespace(b[Len(b)][1])
    THEN trim_end(SubSeq(b, 1, Len(b) - 1)) ELSE b

trim(b) == trim_end(trim_start(b))

\* n empty lines.
empty_lines(n) == <<>> \o [i \in 1..n |-> <<>>]

\* str::split("\n"): the lines of b.  A run of n line feeds ends one line and
\* is followed by n - 1 empty ones.
RECURSIVE split_lines(_)
split_lines(b) ==
    LET feeds == {i \in 1..Len(b) : b[i][1] = LF}
        first == CHOOSE i \in feeds : \A j \in feeds : i <= j
    IN  IF feeds = {} THEN <<b>>
        ELSE <<SubSeq(b, 1, first - 1)>> \o empty_lines(b[first][2] - 1)
             \o split_lines(SubSeq(b, first + 1, Len(b)))

\* String::from_utf8(blob).is_ok(): ASCII bytes are well formed; of the other
\* bytes the files here hold only 0xff, which no well-formed UTF-8 contains.
is_utf8(b) == \A v \in BytesOf(b) : v < 128

\* The closure of main.rs:348-356 on one line: whether the trimmed line starts
\* with "blob ", and the hash it yields then.
is_blob_line(line) == Take(trim(line), 5) = BlobPrefix

RECURSIVE blob_hashes_of(_)
blob_hashes_of(lines) ==
    IF lines = <<>> THEN <<>>
    ELSE <<Unpack(Drop(trim(lines[1]), 5))>> \o blob_hashes_of(Tail(lines))

\* The loop of main.rs:360-362: cat-blob of each line's hash, in order.
RECURSIVE cat_blobs(_, _, _)
cat_blobs(ps, cwd, blob_hashes) ==
    IF blob_hashes = <<>> \/ ps.status # "run" THEN ps
    ELSE cat_blobs(cat_blob_from_blobular_repo(ps, cwd, blob_hashes[1]), cwd,
                   Tail(blob_hashes))

\* cat_file_from_blobular_repo checking each line only when its turn to be
\* printed comes: the blobs of the lines before a malformed one are written.
RECURSIVE cat_lines_lazy(_, _, _)
cat_lines_lazy(ps, cwd, lines) ==
    IF lines = <<>> \/ ps.status # "run" THEN ps
    ELSE IF ~is_blob_line(lines[1]) THEN Fatal(ps, "MalformedManifest")
    ELSE cat_lines_lazy(
             cat_blob_from_blobular_repo(ps, cwd, Unpack(Drop(trim(lines[1]), 5))),
             cwd, Tail(lines))

cat_file_from_blobular_repo_lazy(ps, cwd, hash) ==
    LET found    == find_dot_blobular(ps.disk, cwd)
        resolved == full_hash_from_prefix(ps, hash, found.dir)
        after    == resolved.ps
        objects  == after.disk[found.dir]
        decoded  == ZlibDecode(objects[Shard(resolved.hash)][Name(resolved.hash)])
        read     == [after EXCEPT !.opened = @ \cup {resolved.hash}]
        lines    == split_lines(trim(decoded.bytes))
    IN  IF ~found.ok THEN Fatal(ps, "RepositoryNotFound")
        ELSE IF after.status # "run" THEN after
        ELSE IF ~object_is_file(objects, resolved.hash) THEN Fatal(after, "ObjectNotFound")
        ELSE IF ~decoded.ok \/ ~is_utf8(decoded.bytes) THEN Panic(read)
        ELSE cat_lines_lazy(read, cwd, lines)

\* cat_file_from_blobular_repo (main.rs:309-363)
cat_file_from_blobular_repo(ps, cwd, hash) ==
    LET found    == find_dot_blobular(ps.disk, cwd)
        resolved == full_hash_from_prefix(ps, hash, found.dir)
        after    == resolved.ps
        objects  == after.disk[found.dir]
        decoded  == ZlibDecode(objects[Shard(resolved.hash)][Name(resolved.hash)])
        read     == [after EXCEPT !.opened = @ \cup {resolved.hash}]
        lines    == split_lines(trim(decoded.bytes))
    IN  IF ~found.ok THEN Fatal(ps, "RepositoryNotFound")
        ELSE IF after.status # "run" THEN after
        ELSE IF ~object_is_file(objects, resolved.hash) THEN Fatal(after, "ObjectNotFound")
        \* decoder.read_to_end(&mut blob).unwrap(), String::from_utf8(blob).unwrap()
        ELSE IF ~decoded.ok \/ ~is_utf8(decoded.bytes) THEN Panic(read)
        ELSE IF \E i \in 1..Len(lines) : ~is_blob_line(lines[i])
        THEN Fatal(read, "MalformedManifest")
        ELSE cat_blobs(read, cwd, blob_hashes_of(lines))

(***************************************************************************)
(* The invocations.                                                        *)
(***************************************************************************)

\* Argument lengths tried: one too short, the shortest allowed up to
\* MaxPrefixLen, and the full length.
MaxPrefixLen == 5
ArgLens == ((MinPrefix - 1)..MaxPrefixLen) \cup {HashLen}
Args == {SubSeq(h, 1, n) : h \in KnownHashes, n \in ArgLens}

\* Path lists of an add: each single path, and the lists of two to MaxPaths
\* paths out of ListPaths.
MaxPaths == 2
ListPaths == {"x", "F", "missing"}
PathLists ==
    {<<p>> : p \in Paths}
    \cup UNION {{<<>> \o f : f \in [1..n -> ListPaths]} : n \in 2..MaxPaths}

\* The process has ended: what it reported.
Report(cmd, cwd, args, ps) ==
    LET status == IF ps.status = "run" THEN "ok" ELSE ps.status
    IN  [cmd |-> cmd, cwd |-> cwd, args |-> args, status |-> status,
         exit |-> ExitCode(status), stdout |-> ps.stdout, notes |-> ps.notes,
         listed |-> ps.listed, opened |-> ps.opened, written |-> ps.written,
         read |-> ps.read]

\* The state an invocation started in directory cwd leaves when its process
\* ends as ps.
Outcome(cmd, cwd, args, ps) ==
    LET repo == find_dot_blobular(disk, cwd)
        new  == {<<FileBytes(ps.printed[i][1]), ps.printed[i][2]>> : i \in 1..Len(ps.printed)}
    IN  [disk   |-> ps.disk,
         result |-> Report(cmd, cwd, args, ps),
         added  |-> [d \in DOMAIN ps.disk |->
                       (IF d \in DOMAIN added THEN added[d] ELSE {})
                       \cup (IF repo.ok /\ repo.dir = d THEN new ELSE {})]]

Init ==
    /\ disk = EmptyDir
    /\ result = Report("none", Root, <<>>, Start(EmptyDir))
    /\ added = EmptyDir
    /\ puts = <<>>

\* blobular init
CmdInit(cwd) ==
    LET o == Outcome("init", cwd, <<>>, initialize_dot_blobular(Start(disk), cwd))
    IN  disk' = o.disk /\ result' = o.result /\ added' = o.added /\ puts' = puts

\* blobular add path...
CmdAdd(cwd, path) ==
    LET o == Outcome("add", cwd, path, add_paths(Start(disk), cwd, path))
    IN  disk' = o.disk /\ result' = o.result /\ added' = o.added /\ puts' = puts

\* blobular cat-blob hash
CmdCatBlob(cwd, hash) ==
    LET o == Outcome("cat-blob", cwd, hash,
                     cat_blob_from_blobular_repo(Start(disk), cwd, hash))
    IN  disk' = o.disk /\ result' = o.result /\ added' = o.added /\ puts' = puts

\* blobular cat-file hash
CmdCatFile(cwd, hash) ==
    LET o == Outcome("cat-file", cwd, hash,
                     cat_file_from_blobular_repo(Start(disk), cwd, hash))
    IN  disk' = o.disk /\ result' = o.result /\ added' = o.added /\ puts' = puts

Next ==
    \/ \E cwd \in Dirs : CmdInit(cwd)
    \/ \E cwd \in Dirs, path \in PathLists : CmdAdd(cwd, path)
    \/ \E cwd \in Dirs, hash \in Args : CmdCatBlob(cwd, hash)
    \/ \E cwd \in Dirs, hash \in Args : CmdCatFile(cwd, hash)

Spec == Init /\ [][Next]_vars

(***************************************************************************)
(* The commands started anywhere in a directory tree: the root, a chain of *)
(* MaxDepth directories a, a/a, ... below it, and a directory b beside the *)
(* chain.  Every directory holds the same file x.                          *)
(***************************************************************************)
MaxDepth == 2

TreeDirs == {[i \in 1..n |-> "a"] : n \in 0..MaxDepth} \cup {<<"b">>}

\* The hash of x in full and cut to the shortest prefix allowed.
TreeArgs == {Digest(FileBytes("x")), SubSeq(Digest(FileBytes("x")), 1, MinPrefix)}

TreeNext ==
    \/ \E cwd \in TreeDirs : CmdInit(cwd)
    \/ \E cwd \in TreeDirs : CmdAdd(cwd, <<"x">>)
    \/ \E cwd \in TreeDirs, hash \in TreeArgs : CmdCatBlob(cwd, hash)
    \/ \E cwd \in TreeDirs, hash \in TreeArgs : CmdCatFile(cwd, hash)

SpecTree == Init /\ [][TreeNext]_vars

(***************************************************************************)
(* Invocations that run at the same time.  The program takes no lock, so   *)
(* the steps of the store_blob calls of two adds interleave: the test that *)
(* the object exists (main.rs:199), the shard directory created            *)
(* (main.rs:204-208), the file created (main.rs:211), the stream copied    *)
(* into it (main.rs:214) and finished (main.rs:215).  A process can be     *)
(* killed between any two steps.  Both adds are of the same file, in a     *)
(* store that does not hold it.  Of each process puts keeps the file it    *)
(* adds, the store_blob calls it has yet to make (the first is the one it  *)
(* is in), the step it is at, and as history the hashes it wrote, the      *)
(* hashes whose store_blob has returned and the hashes whose store_blob it *)
(* began after another process was killed in the middle of writing them.   *)
(***************************************************************************)
Procs == {1, 2}

RaceFiles == {"x", "F"}

\* The stores the adds start in: empty, or holding file y (whose shard
\* directory is that of x).
RaceStores ==
    {Root :> EmptyDir, add_paths(Start(Root :> EmptyDir), Root, <<"y">>).disk}

\* The store_blob calls of an add of path, in order: <<blob, blob_hash>> of each
\* chunk, then of the parent blob (main.rs:157-183).
put_list(path) ==
    LET file_bytes == FileBytes(path)
        chunks     == chunk_file(file_bytes)
        hashes     == chunk_hashes_of(file_bytes, chunks)
    IN  (<<>> \o [i \in 1..Len(chunks) |->
            <<Slice(file_bytes, chunks[i].offset, chunks[i].length), hashes[i]>>])
        \o <<<<parent_blob_of(hashes), hash_file(path)>>>>

\* File::create: a new file of no bytes, or the file that was there cut to
\* no bytes.
created_file == [header |-> <<>>, deflate |-> <<>>, adler |-> -1]

\* File::create(&object_path) that refuses a path that exists (create_new).
file_create_new(objects, blob_hash) ==
    IF Shard(blob_hash) \notin DOMAIN objects \/ object_is_file(objects, blob_hash)
    THEN [ok |-> FALSE, objects |-> objects]
    ELSE [ok |-> TRUE,
          objects |-> [objects EXCEPT ![Shard(blob_hash)] =
                          (Name(blob_hash) :> created_file) @@ @]]

\* File::create(&object_path) (main.rs:211): fails when the directory is not
\* there.
file_create(objects, blob_hash) ==
    IF Shard(blob_hash) \notin DOMAIN objects
    THEN [ok |-> FALSE, objects |-> objects]
    ELSE [ok |-> TRUE,
          objects |-> [objects EXCEPT ![Shard(blob_hash)] =
                          (Name(blob_hash) :> created_file) @@ @]]

\* io::copy into the encoder (main.rs:214): the start of the stream, written
\* at the start of the file.
write_copy(file, blob) == [file EXCEPT !.header = ZlibEncode(blob).header]

\* encoder.finish() (main.rs:215): the rest of the stream, written after the
\* place of the header; a file cut to no bytes since has zeros in that place.
write_finish(file, blob) ==
    [header  |-> IF file.header = <<>> THEN <<0, 0>> ELSE file.header,
     deflate |-> ZlibEncode(blob).deflate,
     adler   |-> ZlibEncode(blob).adler]

\* The process after the store_blob call it is in has returned.
Returned(q) ==
    [q EXCEPT !.todo = Tail(@),
              !.pc = IF Len(q.todo) = 1 THEN "done" ELSE "check",
              !.returned = @ \cup {q.todo[1][2]}]

\* Some process was killed after it created the object of this hash and before
\* it finished writing it.
KilledMidWrite(blob_hash) ==
    \E p \in Procs :
        /\ puts[p].pc = "killed" /\ puts[p].at \in {"copy", "finish"}
        /\ puts[p].todo[1][2] = blob_hash

PutInit ==
    \E d \in RaceStores, path \in RaceFiles :
        /\ disk = d
        /\ result = Report("none", Root, <<>>, Start(EmptyDir))
        /\ added = (Root :> {})
        /\ puts = [p \in Procs |->
                     [path |-> path, todo |-> put_list(path), pc |-> "check",
                      at |-> "check", wrote |-> {}, late |-> {}, returned |-> {}]]

\* if object_path.is_file() { return; }
PutCheck(p) ==
    LET q == puts[p]
        h == q.todo[1][2]
        began == [q EXCEPT !.late = IF KilledMidWrite(h) THEN @ \cup {h} ELSE @]
    IN  /\ q.pc = "check"
        /\ puts' = [puts EXCEPT ![p] =
                      IF object_is_file(disk[Root], h) THEN Returned(began)
                      ELSE [began EXCEPT !.pc = "mkdir"]]
        /\ UNCHANGED <<disk, result, added>>

\* if !parent.is_dir() { create_dir_all(parent).unwrap(); }
PutMkdir(p) ==
    LET q == puts[p]
        shard == Shard(q.todo[1][2])
    IN  /\ q.pc = "mkdir"
        /\ disk' = [disk EXCEPT ![Root] =
                      IF shard \in DOMAIN @ THEN @ ELSE (shard :> EmptyDir) @@ @]
        /\ puts' = [puts EXCEPT ![p].pc = "create"]
        /\ UNCHANGED <<result, added>>

\* File::create(&object_path).unwrap()
PutCreate(p) ==
    LET q == puts[p]
        made == file_create(disk[Root], q.todo[1][2])
    IN  /\ q.pc = "create"
        /\ disk' = [disk EXCEPT ![Root] = made.objects]
        /\ puts' = [puts EXCEPT ![p].pc = IF made.ok THEN "copy" ELSE "panic"]
        /\ UNCHANGED <<result, added>>

\* std::io::copy(&mut blob_reader, &mut encoder).unwrap()
PutCopy(p) ==
    LET q == puts[p]
        h == q.todo[1][2]
    IN  /\ q.pc = "copy"
        /\ disk' = [disk EXCEPT ![Root][Shard(h)][Name(h)] = write_copy(@, q.todo[1][1])]
        /\ puts' = [puts EXCEPT ![p].pc = "finish"]
        /\ UNCHANGED <<result, added>>

\* encoder.finish().unwrap(), and store_blob returns
PutFinish(p) ==
    LET q == puts[p]
        h == q.todo[1][2]
    IN  /\ q.pc = "finish"
        /\ disk' = [disk EXCEPT ![Root][Shard(h)][Name(h)] = write_finish(@, q.todo[1][1])]
        /\ puts' = [puts EXCEPT ![p] = Returned([q EXCEPT !.wrote = @ \cup {h}])]
        /\ UNCHANGED <<result, added>>

\* The process is killed where it stands.
Kill(p) ==
    /\ puts[p].pc \notin {"done", "killed", "panic"}
    /\ puts' = [puts EXCEPT ![p].pc = "killed", ![p].at = puts[p].pc]
    /\ UNCHANGED <<disk, result, added>>

PutNext ==
    \E p \in Procs :
        \/ PutCheck(p)
        \/ PutMkdir(p)
        \/ PutCreate(p)
        \/ PutCopy(p)
        \/ PutFinish(p)
        \/ Kill(p)

SpecPut == PutInit /\ [][PutNext]_vars

(***************************************************************************)
(* Retrieval from a store that holds any payload.  cat-blob and cat-file   *)
(* read whatever the objects tree holds: an add of a small file stores     *)
(* the file's bytes as they are under their hash, so a stored payload can  *)
(* be any text or any bytes; the payload of no bytes is the one an add     *)
(* never stores.  Here each store holds the one-byte chunk of file x and   *)
(* one more object, its payload made of up to MaxLines lines: a line that  *)
(* names the stored chunk, a line that names an object the store lacks, a  *)
(* line without the "blob " prefix; or a byte that is not UTF-8.           *)
(***************************************************************************)
MaxLines == 2

GoodLine == Cat(BlobPrefix, as_bytes(Digest(FileBytes("x"))))
MissingLine == Cat(BlobPrefix, as_bytes(Digest(FileBytes("y"))))
BadLine == FileBytes("x")
Lines == {GoodLine, MissingLine, BadLine}

\* Each line followed by a line feed, as the parent blob is built (main.rs:175-180).
RECURSIVE JoinLines(_)
JoinLines(ls) ==
    IF ls = <<>> THEN <<>> ELSE Cat(Push(ls[1], LF, 1), JoinLines(Tail(ls)))

Payloads ==
    {JoinLines(<<>> \o f) : f \in UNION {[1..n -> Lines] : n \in 0..MaxLines}}
    \cup {<<<<255, 1>>>>}

\* The hash of each payload, computed once.
PayloadHash == [p \in Payloads |-> Sha1Hex(p)]

\* The store after store_blob of the chunk of x and of payload p.
CatStore(p) ==
    store_blob(store_blob(Start(Root :> EmptyDir), Root,
                          FileBytes("x"), Digest(FileBytes("x"))),
               Root, p, PayloadHash[p]).disk

CatArgs == {PayloadHash[p] : p \in Payloads} \cup {Digest(FileBytes("x"))}

CatInit ==
    \E p \in Payloads :
        /\ disk = CatStore(p)
        /\ result = Report("none", Root, <<>>, Start(EmptyDir))
        /\ added = (Root :> {})
        /\ puts = <<>>

CatNext ==
    \/ \E hash \in CatArgs : CmdCatBlob(Root, hash)
    \/ \E hash \in CatArgs : CmdCatFile(Root, hash)

SpecCat == CatInit /\ [][CatNext]_vars

(***************************************************************************)
(* Properties.  They read the last invocation from result: the disk it     *)
(* ran on is the disk it left, unless it was an init or an add.            *)
(***************************************************************************)

\* The hashes a store holds: shard directory name and file name joined.
StoredHashes(objects) ==
    UNION {{shard \o name : name \in DOMAIN objects[shard]} : shard \in DOMAIN objects}

\* The payload of the object stored under hash h.
Payload(objects, h) == ZlibDecode(objects[Shard(h)][Name(h)]).bytes

\* The last invocation ran inside a repository; that repository's objects.
InRepo == find_dot_blobular(disk, result.cwd).ok
RepoDir == find_dot_blobular(disk, result.cwd).dir
Objects == disk[RepoDir]

\* The last invocation was a cat-blob or a cat-file.
IsCat == result.cmd \in {"cat-blob", "cat-file"}

\* Its argument is a prefix the resolver scans for.
IsPrefixArg == Len(result.args) >= MinPrefix /\ Len(result.args) # HashLen

\* The stored hashes that start with the argument.
Matches == {h \in StoredHashes(Objects) : starts_with(h, result.args)}

\* The manifest of buffer B: a "blob <hash>" line per chunk, in file order.
manifest_of(B) == parent_blob_of(chunk_hashes_of(B, chunk_file(B)))

\* The lines an add prints for these hashes.
RECURSIVE HashLines(_)
HashLines(hashes) ==
    IF hashes = <<>> THEN <<>>
    ELSE Cat(Push(as_bytes(hashes[1]), LF, 1), HashLines(Tail(hashes)))

\* The payloads stored under these hashes, concatenated in order.
RECURSIVE ConcatPayloads(_, _)
ConcatPayloads(objects, hashes) ==
    IF hashes = <<>> THEN <<>>
    ELSE Cat(Payload(objects, hashes[1]), ConcatPayloads(objects, Tail(hashes)))

\* C1: round trip.  A cat-file of the hash that an add printed for a non-empty
\* buffer B succeeds and writes exactly B to standard output.
C1_RoundTrip ==
    (result.cmd = "cat-file" /\ InRepo) =>
        \A e \in added[RepoDir] :
            e[2] = result.args => result.status = "ok" /\ result.stdout = e[1]

\* C2: after an add of buffer B printed its hash, the object stored under that
\* hash (the whole-file digest) holds the manifest of B.
C2_ManifestUnderFileDigest ==
    \A d \in DOMAIN disk : \A e \in added[d] :
        /\ object_is_file(disk[d], e[2])
        /\ Payload(disk[d], e[2]) = manifest_of(e[1])

\* C3: first write wins.  No invocation removes an object or changes the bytes
\* stored under a hash already present; an invocation writes only hashes that
\* were absent, each once; and an add of non-empty files inside a repository
\* succeeds whether or not their objects are already present.
C3_FirstWriteWins ==
    [][LET repo == find_dot_blobular(disk, result'.cwd)
       IN  /\ \A d \in DOMAIN disk : \A h \in StoredHashes(disk[d]) :
                 /\ d \in DOMAIN disk'
                 /\ h \in StoredHashes(disk'[d])
                 /\ disk'[d][Shard(h)][Name(h)] = disk[d][Shard(h)][Name(h)]
           /\ \A i \in 1..Len(result'.written) :
                 /\ result'.written[i] \notin StoredHashes(disk[repo.dir])
                 /\ \A j \in 1..Len(result'.written) :
                        i # j => result'.written[i] # result'.written[j]
           /\ (/\ result'.cmd = "add"
               /\ repo.ok
               /\ \A i \in 1..Len(result'.args) :
                      is_file(result'.args[i]) /\ BLen(FileBytes(result'.args[i])) > 0)
              => result'.status = "ok" /\ result'.exit = 0]_vars

\* An add of one single-chunk file into a store without it: of its two puts
\* the first writes the object and the second finds it present.
C3_Witness ==
    /\ result.cmd = "add" /\ result.status = "ok"
    /\ result.args = <<"x">> /\ Len(result.written) = 1

\* C4: add is idempotent and deterministic.  The hashes printed for one content
\* are all the same, and an add of paths whose contents were all added before
\* prints those same hashes and leaves every store as it was.
C4_AddIdempotent ==
    [][LET repo == find_dot_blobular(disk, result'.cwd)
           path == result'.args
       IN  /\ \A d \in DOMAIN added' : \A e1, e2 \in added'[d] :
                 e1[1] = e2[1] => e1[2] = e2[2]
           /\ (/\ result'.cmd = "add"
               /\ repo.ok
               /\ \A i \in 1..Len(path) :
                      \E e \in added[repo.dir] : e[1] = FileBytes(path[i]))
              => /\ result'.status = "ok"
                 /\ result'.stdout =
                        HashLines(<<>> \o [i \in 1..Len(path) |->
                            (CHOOSE e \in added[repo.dir] : e[1] = FileBytes(path[i]))[2]])
                 /\ disk' = disk]_vars

\* Content added under path x is added again under path x2: nothing is written.
C4_Witness ==
    /\ result.cmd = "add" /\ result.status = "ok"
    /\ result.args = <<"x2">> /\ result.written = <<>>

\* The chunks start at 0, each starts where the one before it ends, and the
\* last ends at the end of the buffer.
ChunksPartition(B, chunks) ==
    /\ chunks # <<>>
    /\ chunks[1].offset = 0
    /\ \A i \in 1..(Len(chunks) - 1) :
           chunks[i + 1].offset = chunks[i].offset + chunks[i].length
    /\ chunks[Len(chunks)].offset + chunks[Len(chunks)].length = BLen(B)

\* C5: chunk coverage.  For every buffer an add chunked, the chunks partition
\* it, every chunk but the last has a length in MinSize..MaxSize, a buffer
\* shorter than MinSize is one chunk, and the payloads stored under the chunk
\* hashes, concatenated in file order, are the buffer.
C5_ChunkCoverage ==
    \A d \in DOMAIN disk : \A e \in added[d] :
        LET B      == e[1]
            chunks == chunk_file(B)
        IN  /\ ChunksPartition(B, chunks)
            /\ \A i \in 1..(Len(chunks) - 1) :
                   chunks[i].length >= MinSize /\ chunks[i].length <= MaxSize
            /\ BLen(B) < MinSize =>
                   chunks = <<[offset |-> 0, length |-> BLen(B)]>>
            /\ ConcatPayloads(disk[d], chunk_hashes_of(B, chunks)) = B

\* An add has chunked a buffer into three chunks or more, and one shorter than
\* MinSize into one.
C5_Witness ==
    /\ result.cmd = "add" /\ result.status = "ok"
    /\ \E e \in added[RepoDir] : Len(chunk_file(e[1])) >= 3
    /\ \E e \in added[RepoDir] : BLen(e[1]) < MinSize

\* C6: a prefix of MinPrefix characters or more, not HashLen, that exactly one
\* stored hash starts with resolves to that hash, and cat-blob of the prefix
\* writes what cat-blob of the full hash writes.
C6_UniqueMatch ==
    (result.cmd = "cat-blob" /\ InRepo /\ IsPrefixArg /\ Cardinality(Matches) = 1) =>
        LET full  == CHOOSE h \in Matches : TRUE
            whole == cat_blob_from_blobular_repo(Start(disk), result.cwd, full)
        IN  /\ full_hash_from_prefix(Start(disk), result.args, RepoDir).hash = full
            /\ Shard(full) = SubSeq(result.args, 1, 2)
            /\ result.opened = {full}
            /\ result.status = "ok"
            /\ whole.status = "run"
            /\ result.stdout = whole.stdout

\* A cat-blob of a prefix that one of several stored hashes starts with.
C6_Witness ==
    /\ result.cmd = "cat-blob" /\ InRepo /\ IsPrefixArg
    /\ Cardinality(Matches) = 1
    /\ Cardinality(DOMAIN Objects[Shard(result.args)]) > 1
    /\ result.status = "ok" /\ result.stdout # <<>>

\* C7: inside a repository, a cat-blob or cat-file of a prefix of MinPrefix
\* characters or more, not HashLen, that no stored hash starts with fails with
\* ObjectNotFound and exit status 128.
C7_NoMatch ==
    (IsCat /\ InRepo /\ IsPrefixArg /\ Matches = {}) =>
        result.status = "ObjectNotFound" /\ result.exit = 128

\* C8: a prefix of MinPrefix characters or more, not HashLen, that two or more
\* stored hashes start with fails with AmbiguousHash, and the candidates
\* reported are exactly those full hashes.
C8_Ambiguity ==
    (IsCat /\ InRepo /\ IsPrefixArg /\ Cardinality(Matches) >= 2) =>
        result.status = "AmbiguousHash" /\ result.notes = Matches

\* C9: inside a repository, a cat-blob or cat-file of an argument shorter than
\* MinPrefix fails with InvalidPrefix and exit status 128, having listed no
\* shard directory and opened no object, and leaves the disk as it was.
C9_ShortPrefix ==
    [][(/\ result'.cmd \in {"cat-blob", "cat-file"}
        /\ find_dot_blobular(disk, result'.cwd).ok
        /\ Len(result'.args) < MinPrefix)
       => /\ result'.status = "InvalidPrefix"
          /\ result'.exit = 128
          /\ result'.listed = {}
          /\ result'.opened = {}
          /\ result'.written = <<>>
          /\ disk' = disk]_vars

\* A cat-file of a short argument in a repository that holds objects.
C9_Witness ==
    /\ result.cmd = "cat-file" /\ InRepo
    /\ Len(result.args) < MinPrefix
    /\ result.status = "InvalidPrefix"
    /\ StoredHashes(Objects) # {}

\* C10: whenever cat-blob of an argument fails with InvalidPrefix,
\* AmbiguousHash or ObjectNotFound, cat-file of that argument in the same
\* directory on the same disk fails the same way.
C10_SameChecksAsCatBlob ==
    result.cmd = "cat-file" =>
        LET blob == cat_blob_from_blobular_repo(Start(disk), result.cwd, result.args)
        IN  blob.status \in {"InvalidPrefix", "AmbiguousHash", "ObjectNotFound"}
                => result.status = blob.status

\* The last invocation was a cat-file of the full hash of a stored object.
IsCatFileOfStored ==
    /\ result.cmd = "cat-file" /\ InRepo
    /\ Len(result.args) = HashLen
    /\ object_is_file(Objects, result.args)

\* C11: a cat-file of an object whose payload has no bytes decodes no chunk
\* hash, succeeds and writes nothing.
C11_EmptyManifest ==
    (IsCatFileOfStored /\ Payload(Objects, result.args) = <<>>) =>
        result.status = "ok" /\ result.stdout = <<>>

\* The payload is not a manifest: it is not valid text, or one of its lines
\* (trailing whitespace trimmed, split at line feeds) lacks the "blob " prefix.
NonManifest(p) ==
    /\ p # <<>>
    /\ \/ ~is_utf8(p)
       \/ \E line \in {split_lines(trim_end(p))[i] : i \in 1..Len(split_lines(trim_end(p)))} :
              Take(line, 5) # BlobPrefix

\* C12: a cat-file of a stored object whose payload is not a manifest fails
\* with MalformedManifest and exit status 128.
C12_NonManifest ==
    (IsCatFileOfStored /\ NonManifest(Payload(Objects, result.args))) =>
        result.status = "MalformedManifest" /\ result.exit = 128

\* C13: the failures of an add of one path, in the order they are tested: no
\* repository gives RepositoryNotFound, else a path that is no regular file
\* gives PathNotFound, else a file of length 0 gives EmptyFile, and any longer
\* file is stored and its hash printed.  A failing add leaves the disk as it
\* was, prints nothing and exits with status 128.
C13_AddErrors ==
    [][(result'.cmd = "add" /\ Len(result'.args) = 1) =>
        LET repo == find_dot_blobular(disk, result'.cwd)
            path == result'.args[1]
            want == IF ~repo.ok THEN "RepositoryNotFound"
                    ELSE IF ~is_file(path) THEN "PathNotFound"
                    ELSE IF BLen(FileBytes(path)) = 0 THEN "EmptyFile"
                    ELSE "ok"
        IN  /\ result'.status = want
            /\ want = "ok" =>
                   /\ result'.stdout = HashLines(<<hash_file(path)>>)
                   /\ result'.exit = 0
                   /\ object_is_file(disk'[repo.dir], hash_file(path))
            /\ want # "ok" =>
                   /\ disk' = disk
                   /\ result'.written = <<>>
                   /\ result'.stdout = <<>>
                   /\ result'.exit = 128]_vars

\* An add of the empty file in a repository that holds objects.
C13_Witness ==
    /\ result.cmd = "add" /\ result.args = <<"empty">>
    /\ result.status = "EmptyFile"
    /\ InRepo /\ StoredHashes(Objects) # {}

\* The hashes an add of these paths stores: of each file and of its chunks.
HashesOfPaths(paths) ==
    UNION {{hash_file(paths[i])}
           \cup {Digest(b) : b \in ChunkBytes(FileBytes(paths[i]),
                                              chunk_file(FileBytes(paths[i])))}
           : i \in 1..Len(paths)}

\* C14: an add of paths p1..pn whose first failing path is pk prints the hashes
\* of p1..p(k-1) in argument order and stores their objects, reads, stores and
\* prints nothing for pk..pn, and exits with status 128; with no failing path
\* it does so for all of them and exits with status 0.
C14_AddStopsAtFirstFailure ==
    [][result'.cmd = "add" =>
        LET repo  == find_dot_blobular(disk, result'.cwd)
            path  == result'.args
            fails == {i \in 1..Len(path) :
                        \/ ~repo.ok
                        \/ ~is_file(path[i])
                        \/ BLen(FileBytes(path[i])) = 0}
            k     == IF fails = {} THEN Len(path) + 1
                     ELSE CHOOSE i \in fails : \A j \in fails : i <= j
            done  == SubSeq(path, 1, k - 1)
        IN  /\ result'.read = done
            /\ result'.stdout = HashLines(<<>> \o [i \in 1..(k - 1) |-> hash_file(path[i])])
            /\ \A h \in HashesOfPaths(done) : object_is_file(disk'[repo.dir], h)
            /\ \A i \in 1..Len(result'.written) :
                   result'.written[i] \in HashesOfPaths(done)
            /\ k = 1 => disk' = disk
            /\ result'.exit = IF fails = {} THEN 0 ELSE 128]_vars

\* An add of two paths that stored and printed the first and failed on the
\* second.
C14_Witness ==
    /\ result.cmd = "add" /\ result.args = <<"F", "missing">>
    /\ result.status = "PathNotFound" /\ result.exit = 128
    /\ result.read = <<"F">> /\ Len(result.written) > 1

\* Directory d is directory e or one of its ancestors.
IsAncestorOrSelf(d, e) == Len(d) <= Len(e) /\ SubSeq(e, 1, Len(d)) = d

\* C15: an init succeeds exactly when neither the current directory nor any of
\* its ancestors holds a .blobular; it then creates one with an empty objects
\* directory and changes nothing else; otherwise it fails with
\* AlreadyInRepository, exit status 128, and changes nothing.
C15_InitIffUndiscoverable ==
    [][result'.cmd = "init" =>
        LET cwd   == result'.cwd
            found == \E d \in DOMAIN disk : IsAncestorOrSelf(d, cwd)
        IN  IF found
            THEN /\ result'.status = "AlreadyInRepository"
                 /\ result'.exit = 128
                 /\ disk' = disk
            ELSE /\ result'.status = "ok"
                 /\ result'.exit = 0
                 /\ DOMAIN disk' = DOMAIN disk \cup {cwd}
                 /\ disk'[cwd] = EmptyDir
                 /\ \A d \in DOMAIN disk : disk'[d] = disk[d]]_vars

\* An init in a strict descendant of a repository that holds objects has
\* failed.
C15_Witness ==
    /\ result.cmd = "init" /\ result.status = "AlreadyInRepository"
    /\ \E d \in DOMAIN disk :
           /\ IsAncestorOrSelf(d, result.cwd) /\ d # result.cwd
           /\ disk[d] # EmptyDir

\* C16: monotone growth.  Over every step, every repository stays and keeps
\* every hash it held; the hashes it gains are exactly those the invocation's
\* puts wrote; a cat-blob or cat-file leaves the disk as it was.
C16_MonotoneGrowth ==
    [][LET repo == find_dot_blobular(disk, result'.cwd)
           put  == {result'.written[i] : i \in 1..Len(result'.written)}
       IN  /\ \A d \in DOMAIN disk :
                 /\ d \in DOMAIN disk'
                 /\ StoredHashes(disk[d]) \subseteq StoredHashes(disk'[d])
                 /\ StoredHashes(disk'[d]) \ StoredHashes(disk[d])
                        = IF repo.ok /\ repo.dir = d THEN put ELSE {}
           /\ \A d \in DOMAIN disk' \ DOMAIN disk : StoredHashes(disk'[d]) = {}
           /\ result'.cmd \in {"cat-blob", "cat-file"} =>
                  disk' = disk /\ result'.written = <<>>]_vars

\* An add has written an object into a shard directory that held another.
C16_Witness ==
    /\ result.cmd = "add" /\ result.status = "ok" /\ Len(result.written) = 1
    /\ Cardinality(DOMAIN Objects[Shard(result.written[1])]) > 1

RECURSIVE StreamOf(_, _)
StreamOf(objects, hashes) ==
    IF hashes = <<>> \/ ~object_is_file(objects, hashes[1]) THEN <<>>
    ELSE Cat(Payload(objects, hashes[1]), StreamOf(objects, Tail(hashes)))

\* C19: validation precedes output.  A cat-file of a stored object one of whose
\* lines lacks the "blob " prefix opens no object but that one and writes
\* nothing; when every line has the prefix, what it writes is the payloads of
\* the lines' hashes in order, all of them exactly when it succeeds.
C19_ValidationPrecedesOutput ==
    IsCatFileOfStored =>
        LET payload == Payload(Objects, result.args)
            lines   == split_lines(trim(payload))
            hashes  == blob_hashes_of(lines)
        IN  IF ~is_utf8(payload) THEN result.stdout = <<>>
            ELSE IF \E i \in 1..Len(lines) : ~is_blob_line(lines[i])
            THEN /\ result.status = "MalformedManifest"
                 /\ result.stdout = <<>>
                 /\ result.opened = {result.args}
            ELSE /\ result.stdout = StreamOf(Objects, hashes)
                 /\ result.status = "ok" <=>
                        \A i \in 1..Len(hashes) : object_is_file(Objects, hashes[i])
                 /\ result.status = "ok" =>
                        result.stdout = ConcatPayloads(Objects, hashes)

\* A cat-file of a payload whose first line names a stored chunk and whose
\* second line is malformed has failed.
C19_Witness ==
    /\ IsCatFileOfStored
    /\ Payload(Objects, result.args) = JoinLines(<<GoodLine, BadLine>>)
    /\ result.status = "MalformedManifest"

\* C17: benign write race.  However the steps of two adds of the same file
\* interleave, no store_blob fails; and once both adds have returned, every
\* object a process wrote holds the payload it was given and the disk is the
\* one a single add of the file leaves.
C17_BenignWriteRace ==
    /\ \A p \in Procs : puts[p].pc # "panic"
    /\ (\A p \in Procs : puts[p].pc = "done") =>
           /\ \A p \in Procs : \A h \in puts[p].wrote :
                  \E i \in 1..Len(put_list(puts[p].path)) :
                      /\ put_list(puts[p].path)[i][2] = h
                      /\ disk[Root][Shard(h)][Name(h)]
                             = ZlibEncode(put_list(puts[p].path)[i][1])
           /\ \E d \in RaceStores :
                  disk = add_paths(Start(d), Root, <<puts[1].path>>).disk

\* Both adds have returned and both wrote the object of one hash.
C17_Witness ==
    /\ \A p \in Procs : puts[p].pc = "done"
    /\ puts[1].wrote \cap puts[2].wrote # {}

\* C18: when a process was killed after it created the object of hash h and
\* before it finished writing it, and a store_blob of h with the same payload
\* that began after that has returned, the object holds the whole payload and
\* cat-blob of h writes it.
C18_PartialObjectTransient ==
    \A p, q \in Procs :
        (/\ puts[p].pc = "killed" /\ puts[p].at \in {"copy", "finish"}
         /\ puts[p].todo[1][2] \in puts[q].late \cap puts[q].returned) =>
            LET blob == puts[p].todo[1][1]
                h    == puts[p].todo[1][2]
                cat  == cat_blob_from_blobular_repo(Start(disk), Root, h)
            IN  /\ disk[Root][Shard(h)][Name(h)] = ZlibEncode(blob)
                /\ cat.status = "run"
                /\ cat.stdout = blob

====
